---- MODULE Spec2Model ----
(***************************************************************************)
(* DHT20 humidity/temperature sensor driver (dht20.rs) and its checksum /  *)
(* decode library (utils/src/lib.rs).                                      *)
(*                                                                         *)
(* The driver is modelled at the granularity of one bus transaction per    *)
(* step: the bus (an embedded_hal I2c implementation) is the environment   *)
(* and answers every transaction with Ok and the bytes it read, or with    *)
(* an error.  Every step appends what the driver did on the bus and on the *)
(* delay primitive to the trace of the call in progress.                   *)
(***************************************************************************)
EXTENDS Integers, Sequences, FiniteSets, TLC

(***************************************************************************)
(* Bounds of the model.                                                    *)
(***************************************************************************)
\* largest number of "busy" answers the device gives in one ready-poll
MaxBusyPolls == 2
\* longest byte sequence handed to compute_crc8 on its own
MaxCrcLen == 3
\* number of raw 20-bit values handed to the conversions, less one
MaxRawSamples == 255

(***************************************************************************)
(* u8 arithmetic.                                                          *)
(***************************************************************************)
RECURSIVE BitAnd(_, _)
BitAnd(a, b) ==
    IF a = 0 \/ b = 0 THEN 0
    ELSE (a % 2) * (b % 2) + 2 * BitAnd(a \div 2, b \div 2)

RECURSIVE BitOr(_, _)
BitOr(a, b) ==
    IF a = 0 THEN b
    ELSE IF b = 0 THEN a
    ELSE (IF a % 2 = 1 \/ b % 2 = 1 THEN 1 ELSE 0) + 2 * BitOr(a \div 2, b \div 2)

RECURSIVE BitXor(_, _)
BitXor(a, b) ==
    IF a = 0 THEN b
    ELSE IF b = 0 THEN a
    ELSE ((a + b) % 2) + 2 * BitXor(a \div 2, b \div 2)

\* x << n on a u8: bits shifted past bit 7 are lost
Shl8(x, n) == (x * 2 ^ n) % 256

\* x << n and x >> n on a u32; the operands are bytes shifted by at most 16,
\* so no bit reaches bit 32 and nothing is lost
Shl32(x, n) == x * 2 ^ n
Shr32(x, n) == x \div 2 ^ n

(***************************************************************************)
(* utils/src/lib.rs                                                        *)
(***************************************************************************)
CRC8_INITIAL == \hFF
CRC8_POLYNOMIAL == \h31

\* the inner loop as it would be if it tested the lowest bit of the register
RECURSIVE crc8_shift_low_bit(_, _)
crc8_shift_low_bit(crc, n) ==
    IF n = 0 THEN crc
    ELSE IF BitAnd(crc, \h01) # 0
         THEN crc8_shift_low_bit(BitXor(Shl8(crc, 1), CRC8_POLYNOMIAL), n - 1)
         ELSE crc8_shift_low_bit(Shl8(crc, 1), n - 1)

\* the inner loop of compute_crc8: n more of the 8 shifts of one byte
RECURSIVE crc8_shift(_, _)
crc8_shift(crc, n) ==
    IF n = 0 THEN crc
    ELSE IF BitAnd(crc, \h80) # 0
         THEN crc8_shift(BitXor(Shl8(crc, 1), CRC8_POLYNOMIAL), n - 1)
         ELSE crc8_shift(Shl8(crc, 1), n - 1)

\* the outer loop of compute_crc8, from byte i of data on
RECURSIVE crc8_from(_, _, _)

\* the outer loop as it would be if it stopped one byte short
crc8_from_short(crc, data, i) ==
    IF i >= Len(data) THEN crc
    ELSE crc8_from(crc8_shift(BitXor(crc, data[i]), 8), data, i + 1)

crc8_from(crc, data, i) ==
    IF i > Len(data) THEN crc
    ELSE crc8_from(crc8_shift(BitXor(crc, data[i]), 8), data, i + 1)

compute_crc8(data) == crc8_from(CRC8_INITIAL, data, 1)

\* extract_readings as it would be without the mask of the shared byte
extract_readings_unmasked(data) ==
    LET raw_humidity ==
            BitOr(BitOr(Shl32(data[2], 12), Shl32(data[3], 4)), Shr32(data[4], 4))
        raw_temperature ==
            BitOr(BitOr(Shl32(data[4], 16), Shl32(data[5], 8)), data[6])
    IN  <<raw_humidity, raw_temperature>>

\* data[k] of the source is data[k + 1] here (sequences start at 1)
extract_readings(data) ==
    LET raw_humidity ==
            BitOr(BitOr(Shl32(data[2], 12), Shl32(data[3], 4)), Shr32(data[4], 4))
        raw_temperature ==
            BitOr(BitOr(Shl32(BitAnd(data[4], \h0F), 16), Shl32(data[5], 8)), data[6])
    IN  <<raw_humidity, raw_temperature>>

(***************************************************************************)
(* f32 values are written as integers counting units of 2^-20: every value *)
(* the conversions produce is a multiple of 2^-20 (an f32 below 2^8 has    *)
(* 24 significant bits, so its unit in the last place is at least 2^-16    *)
(* once it is 2^4 or more, and finer than 2^-20 only below 2^4, where the  *)
(* exact results are multiples of 2^-20 already).                          *)
(***************************************************************************)
F32_ONE == 1048576   \* 1.0 in units of 2^-20; also 0x100000 as f32

RECURSIVE BitLen(_)
BitLen(n) == IF n = 0 THEN 0 ELSE 1 + BitLen(n \div 2)

\* round the integer x to 24 significant bits, ties to even (an f32 result)
RoundF32(x) ==
    LET a == IF x < 0 THEN -x ELSE x
        k == BitLen(a) - 24
    IN  IF k <= 0 THEN x
        ELSE LET u == 2 ^ k
                 q == a \div u
                 r == a % u
                 up == (2 * r > u) \/ (2 * r = u /\ q % 2 = 1)
                 m == (IF up THEN q + 1 ELSE q) * u
             IN  IF x < 0 THEN -m ELSE m

\* humidity as f32 / 0x100000 as f32 is exact; the product with 100.0 rounds
convert_humidity(humidity) == RoundF32(humidity * 100)

\* convert_temperature as it would be with the lower end of the range, -40
convert_temperature_minus_40(temperature) ==
    RoundF32(RoundF32(temperature * 200) - 40 * F32_ONE)

\* the product with 200.0 rounds, and so does the difference with 50.0
convert_temperature(temperature) ==
    RoundF32(RoundF32(temperature * 200) - 50 * F32_ONE)

(***************************************************************************)
(* dht20.rs: types and constants                                           *)
(***************************************************************************)
I2C_ADDRESS == \h38
RESET_REGISTERS == <<\h1B, \h1C, \h1E>>

\* enum OpCode
CheckStatus == \h71
TriggerMeasurement == \hAC
StatusReady == \h80

\* DHTReading::new(temperature, humidity)
DHTReading_new(temperature, humidity) ==
    [temperature |-> temperature, humidity |-> humidity]

\* the getters of DHTReading
DHTReading_humidity(r) == r.humidity
DHTReading_temperature_celsius(r) == r.temperature

\* Result<_, DHT20Error<E>>
Ok(v) == [kind |-> "Ok", value |-> v]
Err_I2C(e) == [kind |-> "I2C", err |-> e]        \* From<E> for DHT20Error<E>
Err_CrcMismatch == [kind |-> "CrcMismatch"]
Err_NotInitialized == [kind |-> "NotInitialized"]
Pending == [kind |-> "Pending"]                  \* the call has not returned
Panic == [kind |-> "Panic"]                      \* the call has panicked
Unit == <<>>

(***************************************************************************)
(* The environment: what the bus answers, and what the driver did.         *)
(***************************************************************************)
BusErrors == {"NoAcknowledge", "ArbitrationLost"}

\* answers of the device to a status query
StatusBytes == {\h00, \h08, \h10, \h18, \h1C, \h80, \h98}
\* answers of the device to the read-back of a register
RegisterBytes == {<<\h00, \h00, \h00>>, <<\h1B, \hA5, \h3C>>}
\* 6-byte payloads of a measurement
PayloadBytes ==
    { <<\h18, \h80, \h00, \h00, \h06, \h66>>,
      <<\h1C, \h00, \h00, \h06, \h00, \h00>>,
      <<\h1C, \h7F, \hFF, \hF5, \hA1, \h07>> }
\* checksum bytes the device may append to a payload: the right one and others
ChecksumBytes(p) ==
    {compute_crc8(p), BitXor(compute_crc8(p), \h01), \h00, \hFF}

BusOk(bytes) == [err |-> "none", data |-> bytes]
BusFail(e) == [err |-> e, data |-> <<>>]
Failures == {BusFail(e) : e \in BusErrors}

WriteAnswers == {BusOk(<<>>)} \cup Failures
StatusAnswers(S) == {BusOk(<<s>>) : s \in S} \cup Failures
RegisterAnswers == {BusOk(b) : b \in RegisterBytes} \cup Failures
MeasurementAnswers ==
    {BusOk(Append(p, c)) : <<p, c>> \in
        UNION {{<<q, k>> : k \in ChecksumBytes(q)} : q \in PayloadBytes}}
    \cup Failures

\* the entries of a trace
EvWrite(address, bytes, ans) ==
    [t |-> "write", address |-> address, bytes |-> bytes, n |-> 0,
     ans |-> ans]
EvWriteRead(address, bytes, n, ans) ==
    [t |-> "write_read", address |-> address, bytes |-> bytes, n |-> n,
     ans |-> ans]
EvRead(address, n, ans) ==
    [t |-> "read", address |-> address, bytes |-> <<>>, n |-> n, ans |-> ans]
EvDelay(ms) == [t |-> "delay_ms", ms |-> ms]

IsBus(ev) == ev.t \in {"write", "write_read", "read"}

\* a read into a buffer of n bytes takes the first n bytes the device sends
Received(n, ans) == SubSeq(ans.data, 1, n)

(***************************************************************************)
(* dht20.rs: Dht20                                                         *)
(*                                                                         *)
(* A handle is a record: the fields of the struct (address, initialized),  *)
(* the call in progress (op), the bus transaction it is about to issue     *)
(* (pc), the locals that live across transactions (reg, buffer), and what  *)
(* an observer of the call sees: the trace, the result, and whether the    *)
(* handle was initialized when the call was made.                          *)
(***************************************************************************)
Dht20_new ==
    [address |-> I2C_ADDRESS, initialized |-> FALSE,
     op |-> "none", pc |-> "idle", reg |-> 0, buffer |-> <<0, 0, 0>>,
     trace |-> <<>>, result |-> Pending, entered_initialized |-> FALSE]

Did(d, ev) == [d EXCEPT !.trace = Append(@, ev)]
Return(d, r) == [d EXCEPT !.pc = "idle", !.result = r]
Call(d, op) ==
    [d EXCEPT !.op = op, !.trace = <<>>, !.result = Pending,
              !.reg = 0, !.buffer = <<0, 0, 0>>,
              !.entered_initialized = d.initialized]

\* the number of status queries of the call in progress answered "busy"
BusyPolls(d) ==
    Cardinality({i \in 1..Len(d.trace) :
        /\ d.trace[i].t = "write_read"
        /\ d.trace[i].ans.err = "none"
        /\ BitAnd(d.trace[i].ans.data[1], StatusReady) # 0})

----
(* init and check_init *)

\* init as it would be without the power-up delay
init_enter_at_once(d) ==
    [Call(d, "init") EXCEPT !.pc = "check_init"]

\* init as it would be if it put the handle back to Uninitialized first
init_enter_clearing(d) ==
    [Did(Call(d, "init"), EvDelay(100)) EXCEPT !.pc = "check_init",
                                               !.initialized = FALSE]

\* init: the power-up delay, then check_init
init_enter(d) ==
    [Did(Call(d, "init"), EvDelay(100)) EXCEPT !.pc = "check_init"]

\* the tail of check_init as it would be without the settling delay
check_init_done_unsettled(d) ==
    Return([d EXCEPT !.initialized = TRUE], Ok(Unit))

\* the tail of check_init, once the registers are in order
check_init_done(d) ==
    Return([Did(d, EvDelay(10)) EXCEPT !.initialized = TRUE], Ok(Unit))

\* check_init as it would be if it compared the status with 0x18 unmasked
check_init_unmasked(d, ans) ==
    LET d1 == Did(d, EvWriteRead(d.address, <<CheckStatus>>, 1, ans))
    IN  IF ans.err # "none" THEN Return(d1, Err_I2C(ans.err))
        ELSE LET status == ans.data[1]
             IN  IF status # \h18
                 THEN [d1 EXCEPT !.pc = "reset_register_clear", !.reg = 1]
                 ELSE check_init_done(d1)

\* check_init: the status query and the decision to reset the registers
check_init(d, ans) ==
    LET d1 == Did(d, EvWriteRead(d.address, <<CheckStatus>>, 1, ans))
    IN  IF ans.err # "none" THEN Return(d1, Err_I2C(ans.err))
        ELSE LET status == ans.data[1]
             IN  IF BitAnd(status, \h18) # \h18
                 THEN [d1 EXCEPT !.pc = "reset_register_clear", !.reg = 1]
                 ELSE check_init_done(d1)

\* reset_register: write 0x00, 0x00 to the register
reset_register_clear(d, ans) ==
    LET reg == RESET_REGISTERS[d.reg]
        d1 == Did(d, EvWrite(d.address, <<reg, \h00, \h00>>, ans))
    IN  IF ans.err # "none" THEN Return(d1, Err_I2C(ans.err))
        ELSE [Did(d1, EvDelay(5)) EXCEPT !.pc = "reset_register_read"]

\* reset_register as it would be if it marked the handle before the read-back
reset_register_read_marking(d, ans) ==
    LET reg == RESET_REGISTERS[d.reg]
        d1 == [Did(d, EvWriteRead(d.address, <<reg>>, 3, ans))
                  EXCEPT !.initialized = TRUE]
    IN  IF ans.err # "none" THEN Return(d1, Err_I2C(ans.err))
        ELSE [Did(d1, EvDelay(5)) EXCEPT !.pc = "reset_register_write",
                                         !.buffer = ans.data]

\* reset_register: read 3 bytes back from the register
reset_register_read(d, ans) ==
    LET reg == RESET_REGISTERS[d.reg]
        d1 == Did(d, EvWriteRead(d.address, <<reg>>, 3, ans))
    IN  IF ans.err # "none" THEN Return(d1, Err_I2C(ans.err))
        ELSE [Did(d1, EvDelay(5)) EXCEPT !.pc = "reset_register_write",
                                         !.buffer = ans.data]

\* reset_register as it would be if it wrote back buffer[0] and buffer[1]
reset_register_write_shifted(d, ans) ==
    LET reg == RESET_REGISTERS[d.reg]
        d1 == Did(d, EvWrite(d.address,
                <<BitOr(\hB0, reg), d.buffer[1], d.buffer[2]>>, ans))
    IN  IF ans.err # "none" THEN Return(d1, Err_I2C(ans.err))
        ELSE LET d2 == Did(d1, EvDelay(5))
             IN  IF d.reg < Len(RESET_REGISTERS)
                 THEN [d2 EXCEPT !.pc = "reset_register_clear",
                                 !.reg = d.reg + 1]
                 ELSE check_init_done(d2)

\* reset_register: write the values back, and the loop of check_init
reset_register_write(d, ans) ==
    LET reg == RESET_REGISTERS[d.reg]
        d1 == Did(d, EvWrite(d.address,
                <<BitOr(\hB0, reg), d.buffer[2], d.buffer[3]>>, ans))
    IN  IF ans.err # "none" THEN Return(d1, Err_I2C(ans.err))
        ELSE LET d2 == Did(d1, EvDelay(5))
             IN  IF d.reg < Len(RESET_REGISTERS)
                 THEN [d2 EXCEPT !.pc = "reset_register_clear",
                                 !.reg = d.reg + 1]
                 ELSE check_init_done(d2)

----
(* the three steps of a measurement; each yields the handle and the Result *)
(* the helper returns to take_reading or read_raw (Pending: still inside)  *)

\* trigger_measurement as it would be if it dropped the result of the write
trigger_measurement_unchecked(d, ans) ==
    LET command == <<TriggerMeasurement, \h33, \h00>>
        d1 == Did(d, EvWrite(d.address, command, ans))
    IN  <<Did(d1, EvDelay(80)), Ok(Unit)>>

trigger_measurement(d, ans) ==
    LET command == <<TriggerMeasurement, \h33, \h00>>
        d1 == Did(d, EvWrite(d.address, command, ans))
    IN  IF ans.err # "none" THEN <<d1, Err_I2C(ans.err)>>
        ELSE <<Did(d1, EvDelay(80)), Ok(Unit)>>

\* wait_for_ready as it would be if it took a set bit 0x80 for "ready"
wait_for_ready_inverted(d, ans) ==
    LET d1 == Did(d, EvWriteRead(d.address, <<CheckStatus>>, 1, ans))
    IN  IF ans.err # "none" THEN <<d1, Err_I2C(ans.err)>>
        ELSE IF BitAnd(ans.data[1], StatusReady) # 0 THEN <<d1, Ok(Unit)>>
        ELSE <<Did(d1, EvDelay(0)), Pending>>

\* wait_for_ready as it would be if it gave up waiting after two "busy"
wait_for_ready_capped(d, ans) ==
    LET d1 == Did(d, EvWriteRead(d.address, <<CheckStatus>>, 1, ans))
    IN  IF ans.err # "none" THEN <<d1, Err_I2C(ans.err)>>
        ELSE IF BitAnd(ans.data[1], StatusReady) = 0 THEN <<d1, Ok(Unit)>>
        ELSE IF BusyPolls(d) >= 1 THEN <<d1, Ok(Unit)>>
        ELSE <<Did(d1, EvDelay(0)), Pending>>

\* one iteration of the loop of wait_for_ready
wait_for_ready(d, ans) ==
    LET d1 == Did(d, EvWriteRead(d.address, <<CheckStatus>>, 1, ans))
    IN  IF ans.err # "none" THEN <<d1, Err_I2C(ans.err)>>
        ELSE IF BitAnd(ans.data[1], StatusReady) = 0 THEN <<d1, Ok(Unit)>>
        ELSE <<Did(d1, EvDelay(0)), Pending>>

\* read_measurement as it would be with the comparison of the checksums inverted
read_measurement_inverted(d, ans) ==
    LET d1 == Did(d, EvRead(d.address, 7, ans))
    IN  IF ans.err # "none" THEN <<d1, Err_I2C(ans.err)>>
        ELSE LET buffer == ans.data
                 crc == buffer[7]
                 crc_check == compute_crc8(SubSeq(buffer, 1, 6))
             IN  IF crc = crc_check THEN <<d1, Err_CrcMismatch>>
                 ELSE <<d1, Ok(SubSeq(buffer, 1, 6))>>

\* read_measurement as it would be with a buffer of 6 bytes
read_measurement_short_buffer(d, ans) ==
    LET d1 == Did(d, EvRead(d.address, 6, ans))
    IN  IF ans.err # "none" THEN <<d1, Err_I2C(ans.err)>>
        ELSE LET buffer == Received(6, ans)
             IN  IF Len(buffer) < 7 THEN <<d1, Panic>>
                 ELSE LET crc == buffer[7]
                          data == SubSeq(buffer, 1, 6)
                          crc_check == compute_crc8(data)
                      IN  IF crc # crc_check THEN <<d1, Err_CrcMismatch>>
                          ELSE IF Len(data) # 6 THEN <<d1, Panic>>
                          ELSE <<d1, Ok(data)>>

\* buffer[6] and &buffer[..6] panic on a buffer of less than 7 bytes, and
\* try_into().unwrap() on a slice that is not of 6 bytes
read_measurement(d, ans) ==
    LET d1 == Did(d, EvRead(d.address, 7, ans))
    IN  IF ans.err # "none" THEN <<d1, Err_I2C(ans.err)>>
        ELSE LET buffer == Received(7, ans)
             IN  IF Len(buffer) < 7 THEN <<d1, Panic>>
                 ELSE LET crc == buffer[7]
                          data == SubSeq(buffer, 1, 6)
                          crc_check == compute_crc8(data)
                      IN  IF crc # crc_check THEN <<d1, Err_CrcMismatch>>
                          ELSE IF Len(data) # 6 THEN <<d1, Panic>>
                          ELSE <<d1, Ok(data)>>

----
(* take_reading *)

\* take_reading as it would be without the test of the flag
take_reading_enter_unguarded(d) ==
    [Call(d, "take_reading") EXCEPT !.pc = "trigger_measurement"]

take_reading_enter(d) ==
    LET d1 == Call(d, "take_reading")
    IN  IF ~d.initialized THEN Return(d1, Err_NotInitialized)
        ELSE [d1 EXCEPT !.pc = "trigger_measurement"]

take_reading_trigger(d, ans) ==
    LET m == trigger_measurement(d, ans)
    IN  IF m[2].kind # "Ok" THEN Return(m[1], m[2])
        ELSE [m[1] EXCEPT !.pc = "wait_for_ready"]

take_reading_wait(d, ans) ==
    LET m == wait_for_ready(d, ans)
    IN  IF m[2].kind = "Pending" THEN m[1]
        ELSE IF m[2].kind # "Ok" THEN Return(m[1], m[2])
        ELSE [m[1] EXCEPT !.pc = "read_measurement"]

\* take_reading as it would be if it triggered once more after a bad checksum
take_reading_read_retrying(d, ans) ==
    LET m == read_measurement(d, ans)
        reads == {i \in 1..Len(d.trace) : d.trace[i].t = "read"}
    IN  IF m[2].kind = "CrcMismatch" /\ reads = {}
        THEN [m[1] EXCEPT !.pc = "trigger_measurement"]
        ELSE IF m[2].kind # "Ok" THEN Return(m[1], m[2])
        ELSE LET data == m[2].value
                 raw == extract_readings(data)
                 humidity == convert_humidity(raw[1])
                 temperature == convert_temperature(raw[2])
             IN  Return(m[1], Ok(DHTReading_new(temperature, humidity)))

\* take_reading as it would be with the arguments of DHTReading::new swapped
take_reading_read_swapped(d, ans) ==
    LET m == read_measurement(d, ans)
    IN  IF m[2].kind # "Ok" THEN Return(m[1], m[2])
        ELSE LET data == m[2].value
                 raw == extract_readings(data)
                 humidity == convert_humidity(raw[1])
                 temperature == convert_temperature(raw[2])
             IN  Return(m[1], Ok(DHTReading_new(humidity, temperature)))

\* extract_readings indexes data[1] .. data[5] and panics on a shorter slice
take_reading_read(d, ans) ==
    LET m == read_measurement(d, ans)
    IN  IF m[2].kind # "Ok" THEN Return(m[1], m[2])
        ELSE IF Len(m[2].value) < 6 THEN Return(m[1], Panic)
        ELSE LET data == m[2].value
                 raw == extract_readings(data)
                 humidity == convert_humidity(raw[1])
                 temperature == convert_temperature(raw[2])
             IN  Return(m[1], Ok(DHTReading_new(temperature, humidity)))

----
(* read_raw *)

read_raw_enter(d) ==
    LET d1 == Call(d, "read_raw")
    IN  IF ~d.initialized THEN Return(d1, Err_NotInitialized)
        ELSE [d1 EXCEPT !.pc = "trigger_measurement"]

read_raw_trigger(d, ans) ==
    LET m == trigger_measurement(d, ans)
    IN  IF m[2].kind # "Ok" THEN Return(m[1], m[2])
        ELSE [m[1] EXCEPT !.pc = "wait_for_ready"]

\* read_raw as it would be if it polled the status once only
read_raw_wait_once(d, ans) ==
    LET m == wait_for_ready(d, ans)
    IN  IF m[2].kind \notin {"Ok", "Pending"} THEN Return(m[1], m[2])
        ELSE [m[1] EXCEPT !.pc = "read_measurement"]

read_raw_wait(d, ans) ==
    LET m == wait_for_ready(d, ans)
    IN  IF m[2].kind = "Pending" THEN m[1]
        ELSE IF m[2].kind # "Ok" THEN Return(m[1], m[2])
        ELSE [m[1] EXCEPT !.pc = "read_measurement"]

read_raw_read(d, ans) ==
    LET m == read_measurement(d, ans)
    IN  IF m[2].kind # "Ok" THEN Return(m[1], m[2])
        ELSE Return(m[1], Ok(m[2].value))

----
(***************************************************************************)
(* The state: a handle and its caller.  A second handle, twin, on a bus of *)
(* its own, is used only by SpecPair, which drives both handles with the   *)
(* same answers; under Spec it stays as constructed.                       *)
(***************************************************************************)
VARIABLES
    dht,          \* the Dht20 handle
    twin,         \* a second Dht20 handle
    init_history, \* history of dht: "never" (no init call has returned),
                  \* "failed" (init calls returned, none with Ok), "ok"
    lib           \* a call of a function of the library on its own: the
                  \* function, its argument and, in out, <<what it returned>>

vars == <<dht, twin, init_history, lib>>

LibIdle == [fn |-> "none", arg |-> <<>>, out |-> <<>>]

\* the device answers "busy" to at most MaxBusyPolls status queries of a call
PollAnswers(d) ==
    IF BusyPolls(d) < MaxBusyPolls THEN StatusAnswers(StatusBytes)
    ELSE StatusAnswers({s \in StatusBytes : BitAnd(s, StatusReady) = 0})

Init ==
    /\ dht = Dht20_new
    /\ twin = Dht20_new
    /\ init_history = "never"
    /\ lib = LibIdle

Sees(d) ==
    init_history' =
        IF d.op = "init" /\ d.pc = "idle"
        THEN (IF d.result.kind = "Ok" \/ init_history = "ok"
              THEN "ok" ELSE "failed")
        ELSE init_history

Becomes(d) == dht' = d /\ Sees(d) /\ UNCHANGED <<twin, lib>>

CallInit == dht.pc = "idle" /\ Becomes(init_enter(dht))

InitCheckStatus ==
    /\ dht.op = "init" /\ dht.pc = "check_init"
    /\ \E ans \in StatusAnswers(StatusBytes) : Becomes(check_init(dht, ans))

InitResetClear ==
    /\ dht.op = "init" /\ dht.pc = "reset_register_clear"
    /\ \E ans \in WriteAnswers : Becomes(reset_register_clear(dht, ans))

InitResetRead ==
    /\ dht.op = "init" /\ dht.pc = "reset_register_read"
    /\ \E ans \in RegisterAnswers : Becomes(reset_register_read(dht, ans))

InitResetWrite ==
    /\ dht.op = "init" /\ dht.pc = "reset_register_write"
    /\ \E ans \in WriteAnswers : Becomes(reset_register_write(dht, ans))

CallTakeReading == dht.pc = "idle" /\ Becomes(take_reading_enter(dht))

TakeReadingTrigger ==
    /\ dht.op = "take_reading" /\ dht.pc = "trigger_measurement"
    /\ \E ans \in WriteAnswers : Becomes(take_reading_trigger(dht, ans))

TakeReadingWait ==
    /\ dht.op = "take_reading" /\ dht.pc = "wait_for_ready"
    /\ \E ans \in PollAnswers(dht) : Becomes(take_reading_wait(dht, ans))

TakeReadingRead ==
    /\ dht.op = "take_reading" /\ dht.pc = "read_measurement"
    /\ \E ans \in MeasurementAnswers : Becomes(take_reading_read(dht, ans))

CallReadRaw == dht.pc = "idle" /\ Becomes(read_raw_enter(dht))

ReadRawTrigger ==
    /\ dht.op = "read_raw" /\ dht.pc = "trigger_measurement"
    /\ \E ans \in WriteAnswers : Becomes(read_raw_trigger(dht, ans))

ReadRawWait ==
    /\ dht.op = "read_raw" /\ dht.pc = "wait_for_ready"
    /\ \E ans \in PollAnswers(dht) : Becomes(read_raw_wait(dht, ans))

ReadRawRead ==
    /\ dht.op = "read_raw" /\ dht.pc = "read_measurement"
    /\ \E ans \in MeasurementAnswers : Becomes(read_raw_read(dht, ans))

Next ==
    \/ CallInit
    \/ InitCheckStatus
    \/ InitResetClear
    \/ InitResetRead
    \/ InitResetWrite
    \/ CallTakeReading
    \/ TakeReadingTrigger
    \/ TakeReadingWait
    \/ TakeReadingRead
    \/ CallReadRaw
    \/ ReadRawTrigger
    \/ ReadRawWait
    \/ ReadRawRead

Spec == Init /\ [][Next]_vars

----
(***************************************************************************)
(* SpecPair: dht and twin are driven through the same calls of init, and   *)
(* then dht through take_reading while twin goes through read_raw, and the *)
(* two buses give the same answer at every step.                           *)
(***************************************************************************)
BothBecome(d, t) == dht' = d /\ twin' = t /\ Sees(d) /\ UNCHANGED lib

PairCallInit ==
    /\ dht.pc = "idle" /\ twin.pc = "idle"
    /\ BothBecome(init_enter(dht), init_enter(twin))

PairInitCheckStatus ==
    /\ dht.op = "init" /\ dht.pc = "check_init"
    /\ \E ans \in StatusAnswers(StatusBytes) :
          BothBecome(check_init(dht, ans), check_init(twin, ans))

PairInitResetClear ==
    /\ dht.op = "init" /\ dht.pc = "reset_register_clear"
    /\ \E ans \in WriteAnswers :
          BothBecome(reset_register_clear(dht, ans),
                     reset_register_clear(twin, ans))

PairInitResetRead ==
    /\ dht.op = "init" /\ dht.pc = "reset_register_read"
    /\ \E ans \in RegisterAnswers :
          BothBecome(reset_register_read(dht, ans),
                     reset_register_read(twin, ans))

PairInitResetWrite ==
    /\ dht.op = "init" /\ dht.pc = "reset_register_write"
    /\ \E ans \in WriteAnswers :
          BothBecome(reset_register_write(dht, ans),
                     reset_register_write(twin, ans))

PairCall ==
    /\ dht.pc = "idle" /\ twin.pc = "idle"
    /\ BothBecome(take_reading_enter(dht), read_raw_enter(twin))

PairTrigger ==
    /\ dht.op = "take_reading" /\ dht.pc = "trigger_measurement"
    /\ \E ans \in WriteAnswers :
          BothBecome(take_reading_trigger(dht, ans),
                     read_raw_trigger(twin, ans))

PairWait ==
    /\ dht.op = "take_reading" /\ dht.pc = "wait_for_ready"
    /\ \E ans \in PollAnswers(dht) :
          BothBecome(take_reading_wait(dht, ans), read_raw_wait(twin, ans))

PairRead ==
    /\ dht.op = "take_reading" /\ dht.pc = "read_measurement"
    /\ \E ans \in MeasurementAnswers :
          BothBecome(take_reading_read(dht, ans), read_raw_read(twin, ans))

PairNext ==
    \/ PairCallInit
    \/ PairInitCheckStatus
    \/ PairInitResetClear
    \/ PairInitResetRead
    \/ PairInitResetWrite
    \/ PairCall
    \/ PairTrigger
    \/ PairWait
    \/ PairRead

SpecPair == Init /\ [][PairNext]_vars

----
(***************************************************************************)
(* SpecLive: the device may answer "busy" any number of times.  The trace  *)
(* then keeps the last MaxBusyPolls "busy" answers of the call only.  The  *)
(* driver is sequential code on a blocking bus: a transaction it issues    *)
(* is answered and the code goes on to its next one, which is the weak     *)
(* fairness of the steps inside a call.  Nothing is assumed of the caller  *)
(* nor of what the device answers.                                         *)
(***************************************************************************)
\* drop the oldest "busy" answer and the delay after it (entries 3 and 4)
Forget(d) ==
    IF BusyPolls(d) > MaxBusyPolls
    THEN [d EXCEPT !.trace = SubSeq(@, 1, 2) \o SubSeq(@, 5, Len(@))]
    ELSE d

LiveTakeReadingWait ==
    /\ dht.op = "take_reading" /\ dht.pc = "wait_for_ready"
    /\ \E ans \in StatusAnswers(StatusBytes) :
          Becomes(Forget(take_reading_wait(dht, ans)))

LiveReadRawWait ==
    /\ dht.op = "read_raw" /\ dht.pc = "wait_for_ready"
    /\ \E ans \in StatusAnswers(StatusBytes) :
          Becomes(Forget(read_raw_wait(dht, ans)))

LiveStep ==
    \/ InitCheckStatus
    \/ InitResetClear
    \/ InitResetRead
    \/ InitResetWrite
    \/ TakeReadingTrigger
    \/ LiveTakeReadingWait
    \/ TakeReadingRead
    \/ ReadRawTrigger
    \/ LiveReadRawWait
    \/ ReadRawRead

LiveNext ==
    \/ CallInit
    \/ CallTakeReading
    \/ CallReadRaw
    \/ LiveStep

SpecLive == Init /\ [][LiveNext]_vars /\ WF_vars(LiveStep)

----
(***************************************************************************)
(* SpecLib: the functions of utils/src/lib.rs on their own.  The initial   *)
(* state holds a function and an argument, the step applies the function.  *)
(***************************************************************************)
CrcBytes == {\h00, \h12, \h34, \h42, \h56, \hBE, \hEF, \hFF}

RECURSIVE SeqsUpTo(_, _)
SeqsUpTo(S, n) ==
    IF n = 0 THEN {<<>>}
    ELSE LET T == SeqsUpTo(S, n - 1)
         IN  T \cup {Append(t, x) : t \in {u \in T : Len(u) = n - 1}, x \in S}

CrcInputs == SeqsUpTo(CrcBytes, MaxCrcLen)

\* arguments of extract_readings: 6 bytes and what may follow them
ExtractBytes == {\h00, \h06, \h80, \hF5}
ExtractInputs ==
    {<<b0, b1, b2, b3, b4, b5>> \o rest :
        b0 \in {\h18, \h1C}, b1 \in ExtractBytes, b2 \in ExtractBytes,
        b3 \in ExtractBytes, b4 \in ExtractBytes, b5 \in ExtractBytes,
        rest \in {<<>>, <<\h66>>, <<\h66, \h00>>}}
    \cup {<<\h18, \h80, \h00, \h00, \h06, \h66, \h66, \h00>>,
          <<\h18, \h80, \h00, \h00, \h06, \h66, \h66>>,
          <<\h18, \h00, \h00, \h06, \h00, \h00, \h00>>,
          <<\h18, \h00, \h00, \h06, \h00, \h00>>}

\* 20-bit raw values
RawValues ==
    {(i * 4099) % F32_ONE : i \in 0..MaxRawSamples}
    \cup {\h60000, \h80000, \hFFFFF}

LibCall(fn, arg) == [fn |-> fn, arg |-> arg, out |-> <<>>]

InitLib ==
    /\ dht = Dht20_new
    /\ twin = Dht20_new
    /\ init_history = "never"
    /\ lib \in {LibCall("compute_crc8", a) : a \in CrcInputs}
            \cup {LibCall("extract_readings", a) : a \in ExtractInputs}
            \cup {LibCall("convert_humidity", a) : a \in RawValues}
            \cup {LibCall("convert_temperature", a) : a \in RawValues}

Returns(v) ==
    /\ lib.out = <<>>
    /\ lib' = [lib EXCEPT !.out = <<v>>]
    /\ UNCHANGED <<dht, twin, init_history>>

ApplyComputeCrc8 ==
    lib.fn = "compute_crc8" /\ Returns(compute_crc8(lib.arg))

ApplyExtractReadings ==
    lib.fn = "extract_readings" /\ Returns(extract_readings(lib.arg))

ApplyConvertHumidity ==
    lib.fn = "convert_humidity" /\ Returns(convert_humidity(lib.arg))

ApplyConvertTemperature ==
    lib.fn = "convert_temperature" /\ Returns(convert_temperature(lib.arg))

LibNext ==
    \/ ApplyComputeCrc8
    \/ ApplyExtractReadings
    \/ ApplyConvertHumidity
    \/ ApplyConvertTemperature

SpecLib == InitLib /\ [][LibNext]_vars

----
TypeOK ==
    /\ dht.initialized \in BOOLEAN
    /\ dht.op \in {"none", "init", "take_reading", "read_raw"}
    /\ dht.result.kind \in
        {"Pending", "Ok", "I2C", "CrcMismatch", "NotInitialized"}
    /\ init_history \in {"never", "failed", "ok"}

----
(***************************************************************************)
(* Vocabulary of the properties.                                           *)
(***************************************************************************)
\* a call on dht has returned, and it was a call of op
Returned(op) == dht.op = op /\ dht.pc = "idle"
ReturnedReading == Returned("take_reading") \/ Returned("read_raw")

\* positions in the trace of dht of the bus transactions, and of kinds of them
BusAt == {i \in 1..Len(dht.trace) : IsBus(dht.trace[i])}
FailedAt == {i \in BusAt : dht.trace[i].ans.err # "none"}
TriggerAt ==
    {i \in BusAt : /\ dht.trace[i].t = "write"
                   /\ dht.trace[i].bytes = <<\hAC, \h33, \h00>>}
FetchAt == {i \in BusAt : dht.trace[i].t = "read"}
PollAt ==
    {i \in BusAt : /\ dht.trace[i].t = "write_read"
                   /\ dht.trace[i].bytes = <<\h71>>}
NoBusFailure == FailedAt = {}

\* the status byte the status query of the init call in the trace returned
InitStatus == dht.trace[2].ans.data[1]
InitReturnedOk ==
    /\ Returned("init") /\ dht.result.kind = "Ok" /\ NoBusFailure

----
(* C1: on a handle on which no init call has returned Ok, every call of    *)
(* take_reading or read_raw returns NotInitialized and has issued no bus   *)
(* transaction and no delay.                                               *)
C1_NotInitializedWithoutTraffic ==
    (init_history # "ok" /\ dht.op \in {"take_reading", "read_raw"}) =>
        /\ dht.pc = "idle"
        /\ dht.result = Err_NotInitialized
        /\ dht.trace = <<>>

\* read_raw has returned on a handle whose init calls have all failed
C1_Witness ==
    /\ init_history = "failed"
    /\ Returned("read_raw")
    /\ dht.result = Err_NotInitialized

----
(* C2: take_reading returns a Reading, and read_raw a payload, only if the *)
(* 7th byte fetched in that call is compute_crc8 of the 6 before it; when  *)
(* it is not, the call returns CrcMismatch, which carries no value.        *)
C2_ValueOnlyFromValidChecksum ==
    ReturnedReading =>
        /\ dht.result.kind = "Ok" =>
              /\ FetchAt # {}
              /\ \A i \in FetchAt :
                    /\ dht.trace[i].ans.err = "none"
                    /\ dht.trace[i].ans.data[7] =
                          compute_crc8(SubSeq(dht.trace[i].ans.data, 1, 6))
        /\ \A i \in FetchAt :
              (/\ dht.trace[i].ans.err = "none"
               /\ dht.trace[i].ans.data[7] #
                     compute_crc8(SubSeq(dht.trace[i].ans.data, 1, 6)))
              => dht.result = Err_CrcMismatch

\* take_reading has returned a Reading
C2_Witness ==
    /\ Returned("take_reading")
    /\ dht.result.kind = "Ok"
    /\ FetchAt # {}

----
(* C3: a handle starts Uninitialized without bus traffic; an init call on  *)
(* an Uninitialized handle leaves it Ready exactly when it returns Ok, and *)
(* one that met a bus failure returns that transport error and leaves the  *)
(* handle Uninitialized, where take_reading returns NotInitialized.        *)
C3_ReadyIffInitOk ==
    /\ dht.op = "none" => (~dht.initialized /\ dht.trace = <<>>)
    /\ (Returned("init") /\ ~dht.entered_initialized) =>
          /\ dht.initialized <=> dht.result.kind = "Ok"
          /\ dht.result.kind = "Ok" <=> NoBusFailure
          /\ \A i \in FailedAt : dht.result = Err_I2C(dht.trace[i].ans.err)
    /\ (dht.op = "init" /\ dht.pc # "idle" /\ ~dht.entered_initialized) =>
          ~dht.initialized
    /\ (Returned("take_reading") /\ ~dht.entered_initialized) =>
          dht.result = Err_NotInitialized

\* init on an Uninitialized handle failed in the write-back of the last register
C3_Witness ==
    /\ Returned("init") /\ ~dht.entered_initialized
    /\ dht.result.kind = "I2C"
    /\ ~dht.initialized
    /\ Len(dht.trace) = 19
    /\ dht.trace[19].t = "write" /\ dht.trace[19].bytes[1] = \hBE

----
(* C4: a Ready handle stays Ready over every step of every call.           *)
C4_ReadyIsTerminal == [][dht.initialized => dht'.initialized]_vars

\* a repeated init on a Ready handle has failed on the bus, and it is Ready
C4_Witness ==
    /\ Returned("init") /\ dht.entered_initialized
    /\ dht.result.kind = "I2C"
    /\ dht.initialized

----
(* C5: an init whose status query returned s with s & 0x18 = 0x18 and that *)
(* met no bus failure issued one bus transaction, the write_read of 0x71   *)
(* reading 1 byte, no register-reset write, and left the handle Ready.     *)
C5_CalibratedInit ==
    (InitReturnedOk /\ BitAnd(InitStatus, \h18) = \h18) =>
        /\ BusAt = {2}
        /\ dht.trace[2] =
              EvWriteRead(\h38, <<\h71>>, 1, BusOk(<<InitStatus>>))
        /\ \A i \in 1..Len(dht.trace) : dht.trace[i].t # "write"
        /\ dht.initialized

\* such an init, for a status byte that is not 0x18 itself
C5_Witness ==
    /\ InitReturnedOk
    /\ InitStatus = \h98

----
(* C6: an init whose status query returned s with s & 0x18 # 0x18 and that *)
(* met no bus failure issued the reset sequences of 0x1B, 0x1C and 0x1E,   *)
(* in that order, and no other one: write [r, 0, 0]; delay 5; write_read   *)
(* of [r] reading 3 bytes b; delay 5; write [0xB0 | r, b[1], b[2]];        *)
(* delay 5.                                                                *)
ResetSequenceAt(i, r) ==
    LET b == dht.trace[i + 2].ans.data
    IN  /\ dht.trace[i] = EvWrite(\h38, <<r, \h00, \h00>>, BusOk(<<>>))
        /\ dht.trace[i + 1] = EvDelay(5)
        /\ dht.trace[i + 2] = EvWriteRead(\h38, <<r>>, 3, BusOk(b))
        /\ Len(b) = 3
        /\ dht.trace[i + 3] = EvDelay(5)
        /\ dht.trace[i + 4] =
              EvWrite(\h38, <<BitOr(\hB0, r), b[2], b[3]>>, BusOk(<<>>))
        /\ dht.trace[i + 5] = EvDelay(5)

C6_UncalibratedInit ==
    (InitReturnedOk /\ BitAnd(InitStatus, \h18) # \h18) =>
        /\ Len(dht.trace) = 21
        /\ BusAt = {2, 3, 5, 7, 9, 11, 13, 15, 17, 19}
        /\ ResetSequenceAt(3, \h1B)
        /\ ResetSequenceAt(9, \h1C)
        /\ ResetSequenceAt(15, \h1E)

\* such an init, for a status byte with one of the two bits, and a register
\* that read back bytes that differ from each other
C6_Witness ==
    /\ InitReturnedOk
    /\ InitStatus = \h08
    /\ dht.trace[17].ans.data = <<\h1B, \hA5, \h3C>>

----
(* C7: a take_reading on a Ready handle that met no bus failure issued one *)
(* write of [0xAC, 0x33, 0x00], then a delay of 80 ms, then one or more    *)
(* write_reads of 0x71 reading 1 byte, of which the last and only the last *)
(* returned a byte with bit 0x80 clear, then one read of 7 bytes; and in   *)
(* no call is the read issued before such a status byte was seen.          *)
LastPoll == CHOOSE i \in PollAt : \A j \in PollAt : j <= i

C7_ReadingTrace ==
    /\ (Returned("take_reading") /\ dht.entered_initialized /\ NoBusFailure)
         =>
          /\ dht.trace[1] = EvWrite(\h38, <<\hAC, \h33, \h00>>, BusOk(<<>>))
          /\ dht.trace[2] = EvDelay(80)
          /\ TriggerAt = {1}
          /\ PollAt # {}
          /\ FetchAt = {Len(dht.trace)}
          /\ dht.trace[Len(dht.trace)].n = 7
          /\ BusAt = {1} \cup PollAt \cup FetchAt
          /\ \A i \in PollAt :
                /\ 2 < i /\ i < Len(dht.trace)
                /\ dht.trace[i].n = 1
                /\ Len(dht.trace[i].ans.data) = 1
                /\ BitAnd(dht.trace[i].ans.data[1], \h80) = 0 <=> i = LastPoll
          /\ LastPoll = Len(dht.trace) - 1
    /\ dht.op = "take_reading" =>
          \A i \in FetchAt : \E j \in PollAt :
              /\ j < i
              /\ dht.trace[j].ans.err = "none"
              /\ BitAnd(dht.trace[j].ans.data[1], \h80) = 0

\* a take_reading that was answered "busy" twice before the payload came
C7_Witness ==
    /\ Returned("take_reading") /\ dht.result.kind = "Ok"
    /\ Cardinality(PollAt) = 3

----
(* C8: in init, take_reading and read_raw the first bus transaction that   *)
(* fails with e ends the call: the call returns I2C(e) with that e and no  *)
(* bus transaction follows the failed one.                                 *)
C8_FirstFailureEndsCall ==
    \A i \in FailedAt :
        /\ dht.pc = "idle"
        /\ dht.result = Err_I2C(dht.trace[i].ans.err)
        /\ i = Len(dht.trace)
        /\ FailedAt = {i}

\* take_reading has failed in its second status query
C8_Witness ==
    /\ Returned("take_reading")
    /\ dht.result = Err_I2C("ArbitrationLost")
    /\ Cardinality(PollAt) = 2
    /\ FailedAt = {Len(dht.trace)}

----
(* C9: a take_reading or read_raw that returns CrcMismatch has issued one  *)
(* trigger write and one read of 7 bytes.                                  *)
C9_NoRetryOnCrcMismatch ==
    (ReturnedReading /\ dht.result = Err_CrcMismatch) =>
        /\ Cardinality(TriggerAt) = 1
        /\ Cardinality(FetchAt) = 1
        /\ \A i \in FetchAt : dht.trace[i].n = 7

\* take_reading has returned CrcMismatch
C9_Witness ==
    /\ Returned("take_reading")
    /\ dht.result = Err_CrcMismatch
    /\ FetchAt # {}

----
(* C10: from the same handle state and with the same answers of the bus,   *)
(* take_reading (on dht) and read_raw (on twin) issue the same bus         *)
(* transactions and delays and return at the same step, with the same      *)
(* error if one fails; if they succeed read_raw returns the first 6 of the *)
(* 7 bytes fetched and take_reading the decoding of these 6 bytes.         *)
Fetched(d) == d.trace[Len(d.trace)].ans.data

C10_ReadRawAsTakeReading ==
    (dht.op = "take_reading" /\ twin.op = "read_raw") =>
        /\ twin.trace = dht.trace
        /\ twin.pc = dht.pc
        /\ twin.initialized = dht.initialized
        /\ twin.result.kind = dht.result.kind
        /\ dht.result.kind # "Ok" => twin.result = dht.result
        /\ dht.result.kind = "Ok" =>
              /\ twin.result.value = SubSeq(Fetched(twin), 1, 6)
              /\ dht.result.value =
                    DHTReading_new(
                        convert_temperature(
                            extract_readings(twin.result.value)[2]),
                        convert_humidity(
                            extract_readings(twin.result.value)[1]))

\* both calls have returned a value, after one "busy" answer
C10_Witness ==
    /\ dht.op = "take_reading" /\ twin.op = "read_raw"
    /\ dht.pc = "idle" /\ twin.pc = "idle"
    /\ dht.result.kind = "Ok" /\ twin.result.kind = "Ok"
    /\ Len(twin.trace) = 6

----
(***************************************************************************)
(* Vocabulary of the properties of the library.                            *)
(***************************************************************************)
Applied(fn) == lib.fn = fn /\ lib.out # <<>>

\* CRC-8 with polynomial 0x31 and initial register 0xFF as a shift register
\* that takes the message one bit at a time, highest bit of each byte first:
\* the register is 8 bits, bit 7 the highest; no final XOR
RefPolynomial == <<1, 0, 0, 0, 1, 1, 0, 0>>            \* bits 0..7 of 0x31
RefInitial == <<1, 1, 1, 1, 1, 1, 1, 1>>               \* bits 0..7 of 0xFF
RefBit(byte, k) == (byte \div 2 ^ k) % 2
RefClock(reg, bit) ==
    LET feedback == (reg[8] + bit) % 2
    IN  [i \in 1..8 |->
            ((IF i = 1 THEN 0 ELSE reg[i - 1]) + feedback * RefPolynomial[i]) % 2]

RECURSIVE RefRegister(_, _, _, _)
RefRegister(reg, data, i, k) ==
    IF i > Len(data) THEN reg
    ELSE LET next == RefClock(reg, RefBit(data[i], k))
         IN  IF k = 0 THEN RefRegister(next, data, i + 1, 7)
             ELSE RefRegister(next, data, i, k - 1)

RefCrc8(data) ==
    LET reg == RefRegister(RefInitial, data, 1, 7)
    IN  reg[1] + 2 * reg[2] + 4 * reg[3] + 8 * reg[4] + 16 * reg[5]
          + 32 * reg[6] + 64 * reg[7] + 128 * reg[8]

----
(* C11: compute_crc8 is the CRC-8 with polynomial 0x31 and initial         *)
(* register 0xFF, highest bit first, without final XOR; the checksum of    *)
(* [] is 0xFF, of [0x42] is 0xF3 and of [0xBE, 0xEF, 0x42] is 0x04.        *)
C11_Crc8IsReference ==
    Applied("compute_crc8") =>
        /\ lib.out[1] = RefCrc8(lib.arg)
        /\ lib.arg = <<>> => lib.out[1] = 255
        /\ lib.arg = <<66>> => lib.out[1] = 243
        /\ lib.arg = <<190, 239, 66>> => lib.out[1] = 4

\* the checksum of [0xBE, 0xEF, 0x42] has been computed
C11_Witness ==
    /\ Applied("compute_crc8")
    /\ lib.arg = <<\hBE, \hEF, \h42>>
    /\ lib.out = <<\h04>>

----
(* C12: flipping one bit of a non-empty byte sequence changes the value of *)
(* compute_crc8, and the checksums of [0x12, 0x34, 0x56] and of            *)
(* [0x12, 0x32, 0x57] differ.                                              *)
FlipBit(data, i, k) ==
    [data EXCEPT ![i] = IF (@ \div 2 ^ k) % 2 = 1 THEN @ - 2 ^ k ELSE @ + 2 ^ k]

C12_Crc8SeesEveryBit ==
    Applied("compute_crc8") =>
        /\ \A i \in 1..Len(lib.arg) : \A k \in 0..7 :
              compute_crc8(FlipBit(lib.arg, i, k)) # lib.out[1]
        /\ lib.arg = <<\h12, \h34, \h56>> =>
              compute_crc8(<<\h12, \h32, \h57>>) # lib.out[1]

\* the checksum of the 3 bytes of the test has been computed
C12_Witness ==
    /\ Applied("compute_crc8")
    /\ lib.arg = <<\h12, \h34, \h56>>

----
(* C13: for an input b of 6 bytes or more extract_readings returns         *)
(* (b[1] << 12) | (b[2] << 4) | (b[3] >> 4) and                            *)
(* ((b[3] & 0x0F) << 16) | (b[4] << 8) | b[5]; both are below 2^20; b[0]   *)
(* and the bytes after b[5] have no part in them, the high nibble of b[3]  *)
(* has none in the temperature and its low nibble none in the humidity.    *)
\* the bytes of the source, b[0] .. b[5], of the argument
ArgByte(k) == lib.arg[k + 1]
WithByte(k, x) == [lib.arg EXCEPT ![k + 1] = x]

C13_ExtractedFields ==
    Applied("extract_readings") =>
        LET raw_humidity == lib.out[1][1]
            raw_temperature == lib.out[1][2]
        IN  /\ Len(lib.arg) >= 6
            /\ raw_humidity =
                  ArgByte(1) * 4096 + ArgByte(2) * 16 + (ArgByte(3) \div 16)
            /\ raw_temperature =
                  (ArgByte(3) % 16) * 65536 + ArgByte(4) * 256 + ArgByte(5)
            /\ raw_humidity \in 0..(2 ^ 20 - 1)
            /\ raw_temperature \in 0..(2 ^ 20 - 1)
            /\ \A x \in {\h00, \h5A, \hFF} :
                  /\ extract_readings(WithByte(0, x)) = lib.out[1]
                  /\ extract_readings(SubSeq(lib.arg, 1, 6) \o <<x>>)
                        = lib.out[1]
            /\ extract_readings(SubSeq(lib.arg, 1, 6)) = lib.out[1]
            /\ \A nibble \in 0..15 :
                  /\ extract_readings(
                        WithByte(3, nibble * 16 + (ArgByte(3) % 16)))[2]
                        = raw_temperature
                  /\ extract_readings(
                        WithByte(3, (ArgByte(3) \div 16) * 16 + nibble))[1]
                        = raw_humidity
            /\ (ArgByte(1) = \h80 /\ ArgByte(2) = 0 /\ ArgByte(3) = 0)
                  => raw_humidity = \h80000
            /\ (ArgByte(3) = \h06 /\ ArgByte(4) = 0 /\ ArgByte(5) = 0)
                  => raw_temperature = \h60000

\* an input whose shared byte has bits in both nibbles has been extracted
C13_Witness ==
    /\ Applied("extract_readings")
    /\ ArgByte(3) = \hF5
    /\ ArgByte(0) = \h1C
    /\ Len(lib.arg) = 8

----
(* C14: for a 20-bit raw value r, convert_humidity(r) is r / 2^20 * 100    *)
(* and lies in [0, 100], and convert_temperature(r) is                     *)
(* r / 2^20 * 200 - 50, in f32 arithmetic: each product and difference is  *)
(* the f32 nearest to the exact one (ties to even), and the exact one      *)
(* where that is an f32; convert_humidity(0x80000) = 50.0 and              *)
(* convert_temperature(0x60000) = 25.0.  Values are in units of 2^-20.     *)
Abs(x) == IF x < 0 THEN -x ELSE x
\* the distance between neighbouring f32 values at x, in units of 2^-20
UlpAt(x) == IF Abs(x) < 2 ^ 24 THEN 1 ELSE 2 ^ (BitLen(Abs(x)) - 24)
IsF32(y) == y % UlpAt(y) = 0
IsNearestF32(y, x) ==
    /\ IsF32(y)
    /\ 2 * Abs(y - x) <= UlpAt(x)
    /\ 2 * Abs(y - x) = UlpAt(x) => (y \div UlpAt(x)) % 2 = 0

C14_Conversions ==
    /\ Applied("convert_humidity") =>
          /\ lib.arg \in 0..(2 ^ 20 - 1)
          /\ IsNearestF32(lib.out[1], 100 * lib.arg)
          /\ 0 <= lib.out[1] /\ lib.out[1] <= 100 * 2 ^ 20
          /\ lib.arg = \h80000 => lib.out[1] = 50 * 2 ^ 20
    /\ Applied("convert_temperature") =>
          /\ lib.arg \in 0..(2 ^ 20 - 1)
          /\ \E product \in (200 * lib.arg - 8)..(200 * lib.arg + 8) :
                /\ IsNearestF32(product, 200 * lib.arg)
                /\ IsNearestF32(lib.out[1], product - 50 * 2 ^ 20)
          /\ Abs(lib.out[1] - (200 * lib.arg - 50 * 2 ^ 20)) <= 16
          /\ lib.arg = \h60000 => lib.out[1] = 25 * 2 ^ 20

\* the temperature of the largest raw value, whose product with 200 is no f32
C14_Witness ==
    /\ Applied("convert_temperature")
    /\ lib.arg = \hFFFFF
    /\ ~IsF32(200 * lib.arg)

----
(* C15: a Reading returned by take_reading has the humidity                *)
(* convert_humidity(h) and the Celsius temperature convert_temperature(t), *)
(* (h, t) being extract_readings of the 6 payload bytes fetched in that    *)
(* call and accepted by the checksum.                                      *)
C15_ReadingIsDecodedPayload ==
    (Returned("take_reading") /\ dht.result.kind = "Ok") =>
        LET fetched == dht.trace[Len(dht.trace)]
            payload == SubSeq(fetched.ans.data, 1, 6)
            raw == extract_readings(payload)
        IN  /\ fetched.t = "read" /\ fetched.ans.err = "none"
            /\ fetched.ans.data[7] = compute_crc8(payload)
            /\ DHTReading_humidity(dht.result.value)
                  = convert_humidity(raw[1])
            /\ DHTReading_temperature_celsius(dht.result.value)
                  = convert_temperature(raw[2])

\* a Reading of 50 % and of about -49.7 degrees has been returned
C15_Witness ==
    /\ Returned("take_reading") /\ dht.result.kind = "Ok"
    /\ Fetched(dht)[2] = \h80
    /\ DHTReading_humidity(dht.result.value) = 50 * F32_ONE
    /\ DHTReading_temperature_celsius(dht.result.value)
          # DHTReading_humidity(dht.result.value)

----
(* C16: in the ready-poll of take_reading and read_raw, after a status     *)
(* byte with bit 0x80 set the driver delays 10 ms before it issues the     *)
(* next status query.                                                      *)
BusyPollAt ==
    {i \in PollAt : /\ dht.trace[i].ans.err = "none"
                    /\ BitAnd(dht.trace[i].ans.data[1], \h80) # 0}

C16_PollDelayIs10 ==
    dht.op \in {"take_reading", "read_raw"} =>
        \A i \in BusyPollAt :
            /\ i < Len(dht.trace)
            /\ dht.trace[i + 1] = EvDelay(10)

----
(* C17: in an init call that returns Ok a delay of 10 ms follows the last  *)
(* bus transaction of the call and comes before the handle is marked       *)
(* Ready, with and without recalibration.                                  *)
SettledLast(d) ==
    /\ Len(d.trace) >= 2
    /\ d.trace[Len(d.trace)] = EvDelay(10)
    /\ IsBus(d.trace[Len(d.trace) - 1]) \/ d.trace[Len(d.trace) - 1] = EvDelay(5)
    /\ \A i \in 1..(Len(d.trace) - 1) : d.trace[i] # EvDelay(10)

C17_SettlesBeforeReady ==
    /\ []((Returned("init") /\ dht.result.kind = "Ok") => SettledLast(dht))
    /\ [][(dht.op = "init" /\ dht.pc # "idle" /\ dht'.pc = "idle"
              /\ dht'.result.kind = "Ok")
            => (SettledLast(dht') /\ ~SettledLast(dht))]_vars
    /\ [][(~dht.initialized /\ dht'.initialized) => SettledLast(dht')]_vars

\* an init that reset the registers has returned Ok
C17_Witness ==
    /\ Returned("init") /\ dht.result.kind = "Ok"
    /\ Len(dht.trace) = 21
    /\ dht.initialized

----
(* C18: an init call delays 100 ms before its first bus transaction, on a  *)
(* first init and on a repeated one.                                       *)
C18_PowerUpDelayFirst ==
    dht.op = "init" =>
        /\ Len(dht.trace) >= 1
        /\ dht.trace[1] = EvDelay(100)
        /\ \A i \in BusAt : i > 1
        /\ \A i \in PollAt : i = 2

\* a repeated init has issued its status query
C18_Witness ==
    /\ dht.op = "init" /\ dht.entered_initialized
    /\ PollAt = {2}

----
(* C20: no call of init, take_reading or read_raw panics, whatever the     *)
(* device answers and wherever the bus fails: a call that has returned has *)
(* returned Ok, I2C, CrcMismatch or NotInitialized; the 7 bytes fetched    *)
(* give a slice of 6 bytes, which is what extract_readings indexes.        *)
C20_NoPanic ==
    /\ dht.result.kind # "Panic"
    /\ dht.pc # "idle" => dht.result.kind = "Pending"
    /\ (dht.pc = "idle" /\ dht.op # "none") =>
          dht.result.kind \in {"Ok", "I2C", "CrcMismatch", "NotInitialized"}
    /\ \A i \in FetchAt :
          /\ dht.trace[i].n = 7
          /\ dht.trace[i].ans.err = "none" =>
                /\ Len(Received(dht.trace[i].n, dht.trace[i].ans)) = 7
                /\ Len(SubSeq(Received(dht.trace[i].n, dht.trace[i].ans), 1, 6))
                      = 6
    /\ (Returned("read_raw") /\ dht.result.kind = "Ok") =>
          Len(dht.result.value) = 6

\* read_raw has fetched 7 bytes and returned 6 of them
C20_Witness ==
    /\ Returned("read_raw") /\ dht.result.kind = "Ok"
    /\ FetchAt # {}
    /\ Len(dht.result.value) = 6

----
(* C19: a take_reading or read_raw on a Ready handle returns if the device *)
(* at some time answers a status query with bit 0x80 clear or a bus        *)
(* transaction fails; the call leaves the poll loop by such an answer      *)
(* only, so it never returns if every status query is answered with the    *)
(* bit set and the bus never fails.                                        *)
InReading == dht.op \in {"take_reading", "read_raw"} /\ dht.pc # "idle"
Polling == InReading /\ dht.pc = "wait_for_ready"
\* a status query of the call was answered "ready", or a transaction failed
PollEnded ==
    /\ dht.op \in {"take_reading", "read_raw"}
    /\ \/ FailedAt # {}
       \/ \E i \in PollAt : /\ dht.trace[i].ans.err = "none"
                            /\ BitAnd(dht.trace[i].ans.data[1], \h80) = 0

C19_ReturnsIffPollEnds ==
    /\ [](Polling => <>PollEnded) => [](InReading => <>(~InReading))
    /\ [][(Polling /\ ~Polling') => PollEnded']_vars
    /\ [][(Polling /\ ~PollEnded') =>
            (Polling' /\ dht'.trace[Len(dht'.trace) - 1].t = "write_read")]_vars

\* a call has returned a value after more "busy" answers than the trace keeps
C19_Witness ==
    /\ Returned("read_raw") /\ dht.result.kind = "Ok"
    /\ Cardinality(BusyPollAt) = MaxBusyPolls
    /\ Len(dht.trace) = 2 * MaxBusyPolls + 4

====
